---- MODULE Spec2Model ----
(***************************************************************************)
(* Model of the YouTube downloader scripts.                                *)
(*                                                                         *)
(* Three script variants share one shape: two prompts, then a callback     *)
(* that asks ytdl-core for the best combined (video+audio) format, pipes   *)
(* the remote stream into a file write stream and prints a message on the  *)
(* write stream's 'finish' or 'error' event.                               *)
(*   "basic"   : src/index.js lines 1-25                                   *)
(*   "bar"     : src/index.js lines 27-63  (progress bar)                  *)
(*   "percent" : src/unnamed/part_000 lines 62-104 (percentage output)     *)
(***************************************************************************)
EXTENDS Integers, Sequences, FiniteSets, TLC

\* ------------------------------------------------------------------ bounds
MaxRank == 2
MaxStreams == 4
MaxBytes == 3
MaxFileSize == 2
\* the write stream's highWaterMark, scaled down to the model's byte counts
HighWaterMark == 2

\* parseInt's "not a number" result, kept apart from every byte count
NaN == -1

VARIABLES
    variant,              \* which script runs
    catalog,              \* formats the site offers for the URL
    mergeToolAvailable,   \* whether ffmpeg is on the PATH (never read by the scripts)
    pc,                   \* "prompt": callback not yet run; "running": callback returned
    fileName,             \* answer to the second prompt
    outputFilePath,       \* const outputFilePath
    proc,                 \* "alive" | "crashed" (uncaught exception) | "killed" (interrupted)
    format,               \* <<>> or <<s>>: the format ytdl chose
    rs,                   \* remote readable stream
    header,               \* content-length header of the response
    remoteSize,           \* number of bytes the remote stream carries
    remaining,            \* bytes of it not yet delivered as 'data'
    ws,                   \* destination write stream
    wsEnding,             \* end() was called on the write stream
    queue,                \* chunks written to the write stream, not yet on disk
    paused,               \* the pipe paused the remote stream until 'drain'
    fileExists,           \* a file exists at outputFilePath
    fileBytes,            \* its size
    downloadedBytes,      \* percent variant: let downloadedBytes
    totalBytes,           \* percent variant: let totalBytes
    fileSize,             \* bar variant: const fileSize (the bar's total)
    barCurr,              \* bar variant: progressBar.curr
    progress,             \* last progress output written to the terminal
    successCount,         \* times 'Téléchargement terminé !' was printed
    errorCount,           \* times the 'error' handler printed its message
    rlClosed,             \* rl.close() was called
    corePlan,             \* documented core: the AcquisitionPlan
    tasks,                \* documented core: the DownloadTasks, by label
    merge,                \* documented core: the merge step
    result,               \* documented core: the final result given to the caller
    files,                \* documented core: paths that exist on disk
    retainIntermediates   \* documented core: keep the two files after a merge

vars == <<variant, catalog, mergeToolAvailable, pc, fileName, outputFilePath, proc, format, rs, header,
          remoteSize, remaining, ws, wsEnding, queue, paused, fileExists,
          fileBytes, downloadedBytes, totalBytes, fileSize, barCurr, progress,
          successCount, errorCount, rlClosed,
          corePlan, tasks, merge, result, files, retainIntermediates>>

envVars == <<variant, catalog, mergeToolAvailable>>
remoteVars == <<format, rs, header, remoteSize, remaining>>
fileVars == <<ws, wsEnding, queue, paused, fileExists, fileBytes>>
counterVars == <<downloadedBytes, totalBytes, fileSize, barCurr, progress>>
outVars == <<successCount, errorCount, rlClosed>>
coreVars == <<corePlan, tasks, merge, result, files, retainIntermediates>>
pathVars == <<fileName, outputFilePath>>
runVars == <<pc, pathVars, proc, remoteVars, fileVars, counterVars, outVars>>

Variants == {"basic", "bar", "percent"}

\* ------------------------------------------------------------- the catalog
VideoAudio(r) == [hasVideo |-> TRUE, hasAudio |-> TRUE,
                  resolutionRank |-> r, audioBitrateRank |-> 0]
VideoOnly(r) == [hasVideo |-> TRUE, hasAudio |-> FALSE,
                 resolutionRank |-> r, audioBitrateRank |-> 0]
AudioOnly(b) == [hasVideo |-> FALSE, hasAudio |-> TRUE,
                 resolutionRank |-> 0, audioBitrateRank |-> b]

Streams == {VideoAudio(r) : r \in 1..MaxRank}
             \cup {VideoOnly(r) : r \in 1..MaxRank}
             \cup {AudioOnly(b) : b \in 1..MaxRank}

Catalogs == {c \in SUBSET Streams : Cardinality(c) <= MaxStreams}

\* the catalogs of the documented scenarios, and one with two combined formats
ScenarioCatalogs ==
    { {},
      {VideoAudio(1)},
      {VideoAudio(1), VideoAudio(2)},
      {VideoAudio(1), VideoOnly(2), AudioOnly(1)},
      {VideoAudio(1), VideoOnly(1), AudioOnly(1)},
      {VideoOnly(2), AudioOnly(1)} }

\* --------------------------------------------------- ytdl's format choice
\* filter: 'videoandaudio' (WithVideo: what filter 'video' would keep)
WithVideo(c) == {s \in c : s.hasVideo}
VideoAndAudio(c) == {s \in c : s.hasVideo /\ s.hasAudio}

\* quality: 'highestvideo' over the filtered formats (LowestVideo: what
\* 'lowestvideo' would pick)
LowestVideo(fs) == {s \in fs : \A t \in fs : t.resolutionRank >= s.resolutionRank}
HighestVideo(fs) == {s \in fs : \A t \in fs : t.resolutionRank <= s.resolutionRank}

\* ytdl(videoUrl, { quality: 'highestvideo', filter: 'videoandaudio' })
ChooseFormat(c) == HighestVideo(VideoAndAudio(c))


\* ------------------------------------------------------------ conversions
Infinity == -2

\* response.headers['content-length'] when the header is absent
Undefined == <<"undefined">>

DigitChars == <<"0", "1", "2", "3", "4", "5", "6", "7", "8", "9">>
IsDigit(ch) == \E i \in 1..10 : DigitChars[i] = ch
DigitVal(ch) == (CHOOSE i \in 1..10 : DigitChars[i] = ch) - 1

\* decimal text of a natural number, as the server writes the header
RECURSIVE Decimal(_)
Decimal(n) == IF n < 10 THEN <<DigitChars[n + 1]>>
              ELSE Decimal(n \div 10) \o <<DigitChars[(n % 10) + 1]>>

\* value of the leading run of digits of s, given the value acc read so far
RECURSIVE ParseDigits(_, _, _)
ParseDigits(s, acc, seen) ==
    IF s = <<>> \/ ~IsDigit(Head(s))
    THEN (IF seen THEN acc ELSE NaN)
    ELSE ParseDigits(Tail(s), acc * 10 + DigitVal(Head(s)), TRUE)

\* parseInt(text, 10)
ParseInt(s) == ParseDigits(s, 0, FALSE)

\* ((downloadedBytes / totalBytes) * 100).toFixed(2), in hundredths of a percent
Percent(d, t) ==
    IF t = NaN THEN NaN
    ELSE IF t = 0 THEN Infinity
    ELSE (2 * d * 10000 + t) \div (2 * t)

\* ProgressBar's :percent token: floor(clamp(curr / total, 0, 1) * 100)
BarPercent(curr, total) ==
    IF total = 0 \/ curr >= total THEN 100 ELSE (curr * 100) \div total

NoProgress == [kind |-> "none", value |-> 0]

\* ------------------------------------------------------------- file names
\* answers the user may give to the file name prompt
FileNames == { <<"a">>, <<"a", "/", "b">>, <<" ", "a">> }

Extension == <<".", "m", "p", "4">>

\* `${fileName}.mp4` (OutputFilePathBare: without the extension)
OutputFilePathBare(name) == name
OutputFilePath(name) == name \o Extension

\* -------------------------------------------------------------------- Init
NoPlan == [kind |-> "none"]
NoTasks == [l \in {} |-> 0]

\* the scripts before the callback runs
RunIdle ==
    /\ pc = "prompt"
    /\ fileName = <<>>
    /\ outputFilePath = <<>>
    /\ proc = "alive"
    /\ format = <<>>
    /\ rs = "none"
    /\ header = Undefined
    /\ remoteSize = 0
    /\ remaining = 0
    /\ ws = "none"
    /\ wsEnding = FALSE
    /\ queue = <<>>
    /\ paused = FALSE
    /\ downloadedBytes = 0
    /\ totalBytes = 0
    /\ fileSize = 0
    /\ barCurr = 0
    /\ progress = NoProgress
    /\ successCount = 0
    /\ errorCount = 0
    /\ rlClosed = FALSE

\* the documented core before it plans
CoreIdle ==
    /\ corePlan = NoPlan
    /\ tasks = NoTasks
    /\ merge = "idle"
    /\ result = "none"
    /\ files = {}

InitRun ==
    /\ variant \in Variants
    /\ mergeToolAvailable \in BOOLEAN
    /\ fileExists \in BOOLEAN
    /\ fileBytes \in (IF fileExists THEN 0..MaxFileSize ELSE {0})
    /\ RunIdle
    /\ CoreIdle
    /\ retainIntermediates = FALSE

Init == catalog \in ScenarioCatalogs /\ InitRun

InitPlan == catalog \in Catalogs /\ InitRun

\* ----------------------------------------------------------------- actions
Live == proc = "alive" /\ pc = "running"

\* the write stream still takes data from the pipe
Piped == ws \in {"opening", "open"}

\* The inner rl.question callback, run once both prompts are answered.
\* ytdl() starts resolving the URL and createWriteStream() starts opening the
\* file; the bar variant first reads the size of the destination file with
\* fs.statSync, which throws when no file is there.
CallbackBasic ==
    /\ variant = "basic"
    /\ rs' = "resolving"
    /\ ws' = "opening"
    /\ rlClosed' = TRUE
    /\ UNCHANGED <<proc, fileSize, downloadedBytes, totalBytes>>

\* (CallbackBarNoStat: the progress-bar variant without the fs.statSync call)
CallbackBarNoStat ==
    /\ variant = "bar"
    /\ rs' = "resolving"
    /\ ws' = "opening"
    /\ rlClosed' = TRUE
    /\ UNCHANGED <<proc, fileSize, downloadedBytes, totalBytes>>

CallbackBar ==
    /\ variant = "bar"
    /\ rs' = "resolving"
    /\ IF fileExists
       THEN /\ fileSize' = fileBytes
            /\ ws' = "opening"
            /\ rlClosed' = TRUE
            /\ UNCHANGED proc
       ELSE /\ proc' = "crashed"
            /\ UNCHANGED <<fileSize, ws, rlClosed>>
    /\ UNCHANGED <<downloadedBytes, totalBytes>>

CallbackPercent ==
    /\ variant = "percent"
    /\ rs' = "resolving"
    /\ ws' = "opening"
    /\ downloadedBytes' = 0
    /\ totalBytes' = 0
    /\ UNCHANGED <<proc, fileSize, rlClosed>>

Callback ==
    /\ pc = "prompt"
    /\ proc = "alive"
    /\ pc' = "running"
    /\ \E name \in FileNames :
         /\ fileName' = name
         /\ outputFilePath' = OutputFilePath(name)
    /\ (CallbackBasic \/ CallbackBar \/ CallbackPercent)
    /\ UNCHANGED <<envVars, coreVars, format, header, remoteSize, remaining, wsEnding,
                   queue, paused, fileExists, fileBytes, barCurr, progress,
                   successCount, errorCount>>

\* ytdl resolves the catalog and picks the format the options ask for. With no
\* matching format it emits 'error' on the stream it returned; no script
\* listens for 'error' on that stream, so the process dies.
Resolve ==
    /\ Live
    /\ rs = "resolving"
    /\ IF ChooseFormat(catalog) = {}
       THEN /\ rs' = "noformat"
            /\ proc' = "crashed"
            /\ UNCHANGED format
       ELSE /\ \E s \in ChooseFormat(catalog) : format' = <<s>>
            /\ rs' = "requested"
            /\ UNCHANGED proc
    /\ UNCHANGED <<envVars, coreVars, pathVars, pc, header, remoteSize, remaining, fileVars,
                   counterVars, outVars>>

\* videoStream.on('response'): the server answers with the body's size
ResponseTotal(hdr) == IF variant = "percent" THEN ParseInt(hdr) ELSE totalBytes

Response ==
    /\ Live
    /\ rs = "requested"
    /\ \E size \in 1..MaxBytes :
         \E hdr \in {Undefined, Decimal(size), <<"x">>} :
           /\ header' = hdr
           /\ remoteSize' = size
           /\ remaining' = size
           /\ totalBytes' = ResponseTotal(hdr)
    /\ rs' = "flowing"
    /\ UNCHANGED <<envVars, coreVars, pathVars, pc, proc, format, fileVars, downloadedBytes,
                   fileSize, barCurr, progress, outVars>>

\* bytes buffered in the write stream
RECURSIVE Buffered(_)
Buffered(q) == IF q = <<>> THEN 0 ELSE Head(q) + Buffered(Tail(q))

\* write() returns false once the buffer has reached the highWaterMark, and the
\* pipe then pauses the remote stream (NeverPauses: chunks written without
\* regard to what write() returns)
NeverPauses(q) == FALSE
PipePauses(q) == Buffered(q) >= HighWaterMark

\* One chunk of n bytes: the script's own listener runs first ('data' in the
\* percent variant, 'progress' in the bar variant), then the pipe hands the
\* chunk to the write stream.
DataDownloaded(n) == downloadedBytes + n

Data ==
    /\ Live
    /\ rs = "flowing"
    /\ Piped
    /\ ~paused
    /\ \E n \in 1..remaining :
         /\ remaining' = remaining - n
         /\ queue' = Append(queue, n)
         /\ paused' = PipePauses(queue')
         /\ CASE variant = "percent" ->
                   /\ downloadedBytes' = DataDownloaded(n)
                   /\ progress' = [kind |-> "percent",
                                   value |-> Percent(downloadedBytes', totalBytes)]
                   /\ UNCHANGED barCurr
              [] variant = "bar" ->
                   /\ barCurr' = barCurr + n
                   /\ progress' = [kind |-> "percent",
                                   value |-> BarPercent(barCurr', fileSize)]
                   /\ UNCHANGED downloadedBytes
              [] OTHER ->
                   UNCHANGED <<downloadedBytes, barCurr, progress>>
    /\ UNCHANGED <<envVars, coreVars, pathVars, pc, proc, format, rs, header, remoteSize, ws,
                   wsEnding, fileExists, fileBytes, totalBytes, fileSize,
                   outVars>>

\* The remote stream ends after its last byte; the pipe calls end() on the
\* write stream.
End ==
    /\ Live
    /\ rs = "flowing"
    /\ Piped
    /\ ~paused
    /\ remaining = 0
    /\ rs' = "ended"
    /\ wsEnding' = TRUE
    /\ UNCHANGED <<envVars, coreVars, pathVars, pc, proc, format, header, remoteSize, remaining,
                   ws, queue, paused, fileExists, fileBytes, counterVars, outVars>>

\* An error on the remote stream (resolution or transport). No script has an
\* 'error' listener on the stream ytdl returns: the event is thrown.
RemoteError ==
    /\ Live
    /\ rs \in {"resolving", "requested", "flowing"}
    /\ rs' = "errored"
    /\ proc' = "crashed"
    /\ UNCHANGED <<envVars, coreVars, pathVars, pc, format, header, remoteSize, remaining,
                   fileVars, counterVars, outVars>>

\* fs.createWriteStream: the file is created, or truncated, when the open succeeds
OpenFile ==
    /\ Live
    /\ ws = "opening"
    /\ ws' = "open"
    /\ fileExists' = TRUE
    /\ fileBytes' = 0
    /\ UNCHANGED <<envVars, coreVars, pathVars, pc, proc, remoteVars, wsEnding, queue, paused,
                   counterVars, outVars>>

\* one buffered chunk reaches the disk; once the buffer is empty the write
\* stream emits 'drain' and the pipe resumes the remote stream
Flush ==
    /\ Live
    /\ ws = "open"
    /\ queue # <<>>
    /\ fileBytes' = fileBytes + Head(queue)
    /\ queue' = Tail(queue)
    /\ paused' = IF queue' = <<>> THEN FALSE ELSE paused
    /\ UNCHANGED <<envVars, coreVars, pathVars, pc, proc, remoteVars, ws, wsEnding, fileExists,
                   counterVars, outVars>>

\* rl.close() inside the 'finish' and 'error' handlers of the percent variant
\* (HandlerNoClose: a handler that leaves the prompt interface open)
HandlerNoClose == rlClosed
HandlerClose == IF variant = "percent" THEN TRUE ELSE rlClosed

\* the write stream emits 'finish' once end() was called and nothing is
\* buffered (CanFinishEarly: without waiting for end(); CanFinishAfterError:
\* also on a stream that has emitted 'error')
CanFinishEarly == ws = "open" /\ queue = <<>>
CanFinishAfterError == ws \in {"open", "errored"} /\ wsEnding /\ queue = <<>>
CanFinish == ws = "open" /\ wsEnding /\ queue = <<>>

\* .on('finish', ...): the success message
Finish ==
    /\ Live
    /\ CanFinish
    /\ ws' = "finished"
    /\ successCount' = successCount + 1
    /\ rlClosed' = HandlerClose
    /\ UNCHANGED <<envVars, coreVars, pathVars, pc, proc, remoteVars, wsEnding, queue, paused,
                   fileExists, fileBytes, counterVars, errorCount>>

\* the open fails, or a buffered write fails: the write stream emits 'error'
CanFail == ws = "opening" \/ (ws = "open" /\ queue # <<>>)

\* .on('error', ...): the error message; the pipe unpipes and the remote
\* stream is paused
FileError ==
    /\ Live
    /\ CanFail
    /\ ws' = "errored"
    /\ queue' = <<>>
    /\ errorCount' = errorCount + 1
    /\ rlClosed' = HandlerClose
    /\ UNCHANGED <<envVars, coreVars, pathVars, pc, proc, remoteVars, wsEnding, paused,
                   fileExists, fileBytes, counterVars, successCount>>

\* the user interrupts the process
Interrupt ==
    /\ Live
    /\ proc' = "killed"
    /\ UNCHANGED <<envVars, coreVars, pathVars, pc, remoteVars, fileVars, counterVars, outVars>>

Next ==
    \/ Callback
    \/ Resolve
    \/ Response
    \/ Data
    \/ End
    \/ RemoteError
    \/ OpenFile
    \/ Flush
    \/ Finish
    \/ FileError
    \/ Interrupt

Spec == Init /\ [][Next]_vars

\* The event loop runs every callback that is ready: a pending open, a
\* pending write and a pending 'finish' are not postponed forever. Nothing
\* obliges the remote side to answer, the disk to succeed or the user not to
\* interrupt.
FairSpec ==
    /\ Spec
    /\ WF_vars(OpenFile)
    /\ WF_vars(Flush)
    /\ WF_vars(Finish)

\* the format choice alone, over every catalog within the bounds
PlanNext == Callback \/ Resolve

PlanSpec == InitPlan /\ [][PlanNext]_vars

\* ------------------------------------------------------- the plan, as run
\* What the run has decided about how to acquire the video: the scripts only
\* ever ask for one combined format.
Decided == format # <<>> \/ rs = "noformat"

Plan == IF format # <<>> THEN [kind |-> "Combined", stream |-> format[1]]
        ELSE IF rs = "noformat" THEN [kind |-> "NoStreamAvailable"]
        ELSE [kind |-> "none"]

\* ---------------------------------------------- vocabulary of the claims
IsCombined(s) == s.hasVideo /\ s.hasAudio
IsVideoOnly(s) == s.hasVideo /\ ~s.hasAudio
IsAudioOnly(s) == s.hasAudio /\ ~s.hasVideo

CombinedOf(c) == {s \in c : IsCombined(s)}
VideoOnlyOf(c) == {s \in c : IsVideoOnly(s)}
AudioOnlyOf(c) == {s \in c : IsAudioOnly(s)}

BestByResolution(ss) == {s \in ss : \A t \in ss : t.resolutionRank <= s.resolutionRank}
BestByBitrate(ss) == {s \in ss : \A t \in ss : t.audioBitrateRank <= s.audioBitrateRank}

\* a video-only/audio-only pair exists whose resolution beats every combined stream
PairExists(c) == VideoOnlyOf(c) # {} /\ AudioOnlyOf(c) # {}
PairExceeds(c) ==
    /\ PairExists(c)
    /\ \E v \in VideoOnlyOf(c) :
         \A s \in CombinedOf(c) : v.resolutionRank > s.resolutionRank

\* the task's lifecycle, read off what the run has printed and how it ended
Completed == successCount > 0
Failed == errorCount > 0 \/ proc = "crashed"
Started == rs \in {"flowing", "ended"} \/ Completed \/ Failed

\* bytes the remote stream has delivered so far
Received == remoteSize - remaining

\* ------------------------------------------------- the documented core
\* The planner, executor and merge finalizer the documentation describes
\* (video-only + audio-only + merge, or one combined file). No script under
\* src/ implements them; they are modelled from the design's sections 4.1 to
\* 4.3, 5 and 7.

\* 4.1 steps 1-3
bestCombined(c) == BestByResolution(CombinedOf(c))
bestVideoOnly(c) == BestByResolution(VideoOnlyOf(c))
bestAudioOnly(c) == BestByBitrate(AudioOnlyOf(c))

\* 4.1 steps 4-6
SpecPlan(c, m) ==
    IF /\ m
       /\ bestVideoOnly(c) # {}
       /\ bestAudioOnly(c) # {}
       /\ \/ bestCombined(c) = {}
          \/ \E v \in bestVideoOnly(c) : \E s \in bestCombined(c) :
                v.resolutionRank > s.resolutionRank
    THEN [kind |-> "Split",
          videoStream |-> CHOOSE v \in bestVideoOnly(c) : TRUE,
          audioStream |-> CHOOSE a \in bestAudioOnly(c) : TRUE]
    ELSE IF bestCombined(c) # {}
    THEN [kind |-> "Combined", stream |-> CHOOSE s \in bestCombined(c) : TRUE]
    ELSE [kind |-> "NoStreamAvailable"]

PlanLabels(p) == CASE p.kind = "Split" -> {"video", "audio"}
                   [] p.kind = "Combined" -> {"combined"}
                   [] OTHER -> {}

\* destination paths: one per task, with distinct suffixes
PathOf(l) == CASE l = "video" -> "out.video.tmp"
               [] l = "audio" -> "out.audio.tmp"
               [] OTHER -> "out.mp4"
FinalPath == "out.mp4"

NewTask(l) == [state |-> "Pending", downloadedBytes |-> 0, remaining |-> 0,
               destinationPath |-> PathOf(l)]

\* 4.1: plan; 4.2: one DownloadTask per stream of the plan
CorePlanStep ==
    /\ corePlan = NoPlan
    /\ corePlan' = SpecPlan(catalog, mergeToolAvailable)
    /\ tasks' = [l \in PlanLabels(corePlan') |-> NewTask(l)]
    /\ result' = IF corePlan'.kind = "NoStreamAvailable"
                 THEN "NoStreamAvailable" ELSE result
    /\ UNCHANGED <<envVars, runVars, fileExists, fileBytes, merge, files,
                   retainIntermediates>>

\* 4.2: open the remote stream and the destination file
TaskStart ==
    \E l \in DOMAIN tasks :
      /\ tasks[l].state = "Pending"
      /\ \E n \in 1..MaxBytes :
           tasks' = [tasks EXCEPT ![l].state = "InProgress", ![l].remaining = n]
      /\ files' = files \cup {tasks[l].destinationPath}
      /\ UNCHANGED <<envVars, runVars, fileExists, fileBytes, corePlan, merge,
                     result, retainIntermediates>>

\* 4.2: on each received chunk (TaskChunkShared: one byte counter shared by
\* all tasks instead of one per task)
TaskChunkShared ==
    \E l \in DOMAIN tasks :
      /\ tasks[l].state = "InProgress"
      /\ \E n \in 1..tasks[l].remaining :
           tasks' = [k \in DOMAIN tasks |->
                       [tasks[k] EXCEPT
                          !.downloadedBytes = tasks[k].downloadedBytes + n,
                          !.remaining = IF k = l THEN tasks[k].remaining - n
                                        ELSE tasks[k].remaining]]
      /\ UNCHANGED <<envVars, runVars, fileExists, fileBytes, corePlan, merge,
                     result, files, retainIntermediates>>

\* 4.2: on each received chunk
TaskChunk ==
    \E l \in DOMAIN tasks :
      /\ tasks[l].state = "InProgress"
      /\ \E n \in 1..tasks[l].remaining :
           tasks' = [tasks EXCEPT
                       ![l].downloadedBytes = tasks[l].downloadedBytes + n,
                       ![l].remaining = tasks[l].remaining - n]
      /\ UNCHANGED <<envVars, runVars, fileExists, fileBytes, corePlan, merge,
                     result, files, retainIntermediates>>

\* 4.2: on stream end with no error; 4.3: a Combined download is the artifact
TaskComplete ==
    \E l \in DOMAIN tasks :
      /\ tasks[l].state = "InProgress"
      /\ tasks[l].remaining = 0
      /\ tasks' = [tasks EXCEPT ![l].state = "Completed"]
      /\ result' = IF corePlan.kind = "Combined" THEN "Artifact" ELSE result
      /\ UNCHANGED <<envVars, runVars, fileExists, fileBytes, corePlan, merge,
                     files, retainIntermediates>>

\* 4.2: on any transport or filesystem error
TaskFail ==
    \E l \in DOMAIN tasks :
      /\ tasks[l].state = "InProgress"
      /\ tasks' = [tasks EXCEPT ![l].state = "Failed"]
      /\ result' = IF result = "none" THEN "DownloadFailed" ELSE result
      /\ UNCHANGED <<envVars, runVars, fileExists, fileBytes, corePlan, merge,
                     files, retainIntermediates>>

\* 4.3: the merge is invoked only after both tasks report Completed
\* (MergeReadyVideoOnly: waiting for the video task alone)
MergeReadyVideoOnly ==
    /\ corePlan.kind = "Split"
    /\ tasks["video"].state = "Completed"
MergeReady ==
    /\ corePlan.kind = "Split"
    /\ \A l \in DOMAIN tasks : tasks[l].state = "Completed"

\* 4.3, 7: what is on disk after the merge tool ran (MergedFilesCleanup:
\* removing the two intermediate files whatever the outcome)
MergedFilesCleanup(ok) ==
    (files \ {PathOf("video"), PathOf("audio")})
        \cup (IF ok THEN {FinalPath} ELSE {})
MergedFiles(ok) ==
    IF ok
    THEN (IF retainIntermediates THEN files
          ELSE files \ {PathOf("video"), PathOf("audio")}) \cup {FinalPath}
    ELSE files

\* 4.3: the external tool exits 0, or exits non-zero or is not there
Merge ==
    /\ MergeReady
    /\ merge = "idle"
    /\ result = "none"
    /\ \E ok \in BOOLEAN :
         /\ merge' = IF ok THEN "done" ELSE "failed"
         /\ result' = IF ok THEN "Artifact" ELSE "MergeFailed"
         /\ files' = MergedFiles(ok)
    /\ UNCHANGED <<envVars, runVars, fileExists, fileBytes, corePlan, tasks,
                   retainIntermediates>>

CoreNext ==
    \/ CorePlanStep
    \/ TaskStart
    \/ TaskChunk
    \/ TaskComplete
    \/ TaskFail
    \/ Merge

InitCore ==
    /\ catalog \in ScenarioCatalogs
    /\ mergeToolAvailable \in BOOLEAN
    /\ variant = "core"
    /\ fileExists = FALSE
    /\ fileBytes = 0
    /\ RunIdle
    /\ CoreIdle
    /\ retainIntermediates \in BOOLEAN

CoreSpec == InitCore /\ [][CoreNext]_vars

\* the scripts' format choice and the documented planner, side by side on
\* every catalog within the bounds
PlannerNext == Callback \/ Resolve \/ CorePlanStep

PlannerSpec == InitPlan /\ [][PlannerNext]_vars

\* -------------------------------------------------------------------- C1
\* C1: with the merge tool available, an audio-only stream present and a
\* video-only stream whose resolution beats every combined stream (or no
\* combined stream at all), the decided plan is Split, with the best
\* video-only stream and the best audio-only stream.
C1_SplitWhenPairExceeds ==
    (Decided /\ mergeToolAvailable /\ PairExceeds(catalog)) =>
        /\ Plan.kind = "Split"
        /\ Plan.videoStream \in BestByResolution(VideoOnlyOf(catalog))
        /\ Plan.audioStream \in BestByBitrate(AudioOnlyOf(catalog))

\* -------------------------------------------------------------------- C2
\* C2: when the catalog holds a combined stream and no video-only/audio-only
\* pair beats it, the plan is Combined with a combined stream of the catalog
\* of highest resolution, whatever mergeToolAvailable is.
C2_CombinedWhenNoGain ==
    (Decided /\ CombinedOf(catalog) # {} /\ ~PairExceeds(catalog)) =>
        /\ Plan.kind = "Combined"
        /\ Plan.stream \in catalog
        /\ IsCombined(Plan.stream)
        /\ \A t \in CombinedOf(catalog) :
             t.resolutionRank <= Plan.stream.resolutionRank

\* Scenario C with the merge tool present: the video-only stream only equals
\* the best combined one, and a lower combined stream is passed over.
C2_Witness ==
    /\ Decided
    /\ mergeToolAvailable
    /\ Cardinality(CombinedOf(catalog)) >= 2
    /\ PairExists(catalog)
    /\ ~PairExceeds(catalog)
    /\ Plan.kind = "Combined"
    /\ \E v \in VideoOnlyOf(catalog) :
         v.resolutionRank = Plan.stream.resolutionRank

\* -------------------------------------------------------------------- C3
\* C3: the plan fails with NoStreamAvailable exactly when the catalog has
\* neither a combined stream nor a video-only/audio-only pair; otherwise a
\* complete plan is returned; and a failed plan leaves no download and no
\* destination file behind.
C3_NoStreamIffNothingUsable ==
    Decided =>
        /\ (Plan.kind = "NoStreamAvailable")
             <=> (CombinedOf(catalog) = {} /\ ~PairExists(catalog))
        /\ Plan.kind \in {"Combined", "Split", "NoStreamAvailable"}
        /\ (Plan.kind = "NoStreamAvailable") => ws = "none"

\* -------------------------------------------------------------------- C4
\* C4: a task never is both Completed and Failed, the success and error
\* messages together are printed at most once, a started task stays started,
\* a Completed task stays Completed, and a Failed task stays Failed, is never
\* completed afterwards and is not retried: its write stream is not reopened
\* and no further byte is received or written.
C4_Lifecycle ==
    /\ [](~(Completed /\ Failed) /\ successCount + errorCount <= 1)
    /\ [][ /\ (Started => Started')
           /\ (Completed => Completed' /\ ~Failed')
           /\ (Failed => Failed' /\ ~Completed')
           /\ (Failed => (ws' = ws /\ fileBytes' = fileBytes
                            /\ Received' = Received)) ]_vars

\* both endings happen: this is the Completed one, after a transfer in
\* several chunks
C4_Witness ==
    /\ Completed
    /\ ws = "finished"
    /\ remoteSize >= 2
    /\ rlClosed

\* -------------------------------------------------------------------- C5
\* C5: every error of a transfer, from the remote stream or from the write
\* stream, is reported by a handler as a failed download, and the run never
\* reports success after it.
C5_EveryErrorReported ==
    (rs = "errored" \/ ws = "errored") => (errorCount > 0 /\ successCount = 0)

\* -------------------------------------------------------------------- C6
\* C6: success is reported only once the remote stream has ended, every byte
\* of it is on disk and nothing failed; an interrupted or failed run, whose
\* destination file may be partial, never reports success.
C6_SuccessOnlyWhenComplete ==
    successCount > 0 =>
        /\ rs = "ended"
        /\ remaining = 0
        /\ queue = <<>>
        /\ fileExists
        /\ fileBytes = remoteSize
        /\ ws = "finished"
        /\ errorCount = 0
        /\ proc # "crashed"

C6_Witness ==
    /\ successCount = 1
    /\ remoteSize >= 2
    /\ fileBytes = remoteSize

\* -------------------------------------------------------------------- C8
\* C8: the byte counter of a task equals the sum of the chunks received so
\* far (hence never decreases), and on completion with a known expected size
\* it equals that size, which is the size the remote stream declared.
C8_CounterMatchesExpected ==
    /\ (variant = "percent" /\ pc = "running") => downloadedBytes = Received
    /\ (variant = "bar" /\ pc = "running") => barCurr = Received
    /\ (variant = "percent" /\ Completed /\ totalBytes # NaN) =>
           (downloadedBytes = totalBytes /\ totalBytes = remoteSize)
    /\ (variant = "bar" /\ Completed) =>
           (barCurr = fileSize /\ fileSize = remoteSize)

\* -------------------------------------------------------------------- C9
\* C9: while the expected size is unknown (header absent or not a number),
\* a progress event carries an absolute byte count, never a percentage.
C9_UnknownTotalReportsBytes ==
    (variant = "percent" /\ progress.kind # "none" /\ totalBytes = NaN) =>
        progress.kind = "bytes"

\* -------------------------------------------------------------------- C7
\* C7: in Split mode the merge step has been invoked only if both tasks are
\* Completed, and as soon as either task is Failed the merge step has not
\* been invoked and the overall result is DownloadFailed.
C7_MergeOnlyAfterBothCompleted ==
    corePlan.kind = "Split" =>
        /\ merge # "idle" => \A l \in {"video", "audio"} : tasks[l].state = "Completed"
        /\ (\E l \in {"video", "audio"} : tasks[l].state = "Failed") =>
               (merge = "idle" /\ result = "DownloadFailed")

\* Scenario E: the audio task fails after the video task has completed
C7_Witness ==
    /\ corePlan.kind = "Split"
    /\ tasks["video"].state = "Completed"
    /\ tasks["audio"].state = "Failed"
    /\ tasks["audio"].downloadedBytes > 0
    /\ result = "DownloadFailed"

\* ------------------------------------------------------------------- C10
\* C10: when the merge tool fails after a Split plan has started, the result
\* is MergeFailed, no final artifact exists, no Combined download was started
\* and both intermediate files are still on disk.
C10_MergeFailedKeepsFiles ==
    merge = "failed" =>
        /\ result = "MergeFailed"
        /\ corePlan.kind = "Split"
        /\ FinalPath \notin files
        /\ DOMAIN tasks = {"video", "audio"}
        /\ PathOf("video") \in files
        /\ PathOf("audio") \in files

C10_Witness ==
    /\ merge = "failed"
    /\ result = "MergeFailed"
    /\ ~retainIntermediates
    /\ tasks["video"].downloadedBytes >= 2

\* ------------------------------------------------------------------- C11
\* C11: once the remote stream has ended without error, unless a write to
\* the destination fails or the user interrupts, the run eventually has the
\* task Completed, the destination file closed with every byte in it, the
\* success message displayed exactly once and the prompt interface released.
C11_EndLeadsToSuccess ==
    (rs = "ended") ~>
        \/ /\ Completed
           /\ ws = "finished"
           /\ fileBytes = remoteSize
           /\ successCount = 1
           /\ rlClosed
        \/ ws = "errored"
        \/ proc = "killed"

\* the percentage variant, which releases the prompt only in its handlers
C11_Witness ==
    /\ variant = "percent"
    /\ rs = "ended"
    /\ ws = "finished"
    /\ successCount = 1
    /\ rlClosed
    /\ proc = "alive"

\* ------------------------------------------------------------------- C13
\* a plan p is well formed for the catalog c
WellFormed(p, c) ==
    /\ p.kind \in {"none", "Combined", "Split", "NoStreamAvailable"}
    /\ p.kind = "Combined" =>
         /\ DOMAIN p = {"kind", "stream"}
         /\ p.stream \in c
         /\ IsCombined(p.stream)
    /\ p.kind = "Split" =>
         /\ DOMAIN p = {"kind", "videoStream", "audioStream"}
         /\ p.videoStream \in c
         /\ IsVideoOnly(p.videoStream)
         /\ p.audioStream \in c
         /\ IsAudioOnly(p.audioStream)
    /\ p.kind \in {"none", "NoStreamAvailable"} => DOMAIN p = {"kind"}

\* C13: every plan references only streams of its catalog, a Combined plan's
\* stream carries video and audio, a Split plan's streams are video-only and
\* audio-only, and a plan has the fields of exactly one variant. This is
\* stated of the plan the scripts run and of the documented planner's plan.
C13_PlanWellFormed ==
    /\ Len(format) <= 1
    /\ WellFormed(Plan, catalog)
    /\ WellFormed(corePlan, catalog)
    /\ DOMAIN tasks = PlanLabels(corePlan)

\* the scripts chose a combined stream where the documented planner splits
C13_Witness ==
    /\ Plan.kind = "Combined"
    /\ corePlan.kind = "Split"
    /\ Cardinality(VideoOnlyOf(catalog)) >= 2
    /\ Cardinality(CombinedOf(catalog)) >= 1

\* ------------------------------------------------------------------- C14
Terminal(t) == t.state \in {"Completed", "Failed"}

\* C14: in Split mode the two tasks write to distinct paths; every step
\* changes at most one task, and changes its byte count only by what its own
\* remote stream delivered; and once both tasks are terminal the outcome is
\* fixed by their two terminal states alone, whatever the interleaving was:
\* DownloadFailed exactly when one of them Failed.
C14_TasksIndependent ==
    /\ [](corePlan.kind = "Split" =>
            /\ tasks["video"].destinationPath # tasks["audio"].destinationPath
            /\ \A l \in DOMAIN tasks : tasks[l].destinationPath # FinalPath
            /\ (\A l \in DOMAIN tasks : Terminal(tasks[l])) =>
                 ((result = "DownloadFailed")
                    <=> (\E l \in DOMAIN tasks : tasks[l].state = "Failed")))
    /\ [][(corePlan.kind = "Split" /\ DOMAIN tasks' = DOMAIN tasks) =>
            /\ \A l, k \in DOMAIN tasks :
                 (l # k /\ tasks'[l] # tasks[l]) => tasks'[k] = tasks[k]
            /\ \A l \in DOMAIN tasks :
                 /\ tasks'[l].downloadedBytes >= tasks[l].downloadedBytes
                 /\ tasks[l].state = "InProgress" =>
                      tasks'[l].downloadedBytes + tasks'[l].remaining
                        = tasks[l].downloadedBytes + tasks[l].remaining
                 /\ Terminal(tasks[l]) => tasks'[l] = tasks[l] ]_vars

\* both transfers are under way at once, each part-way through
C14_Witness ==
    /\ corePlan.kind = "Split"
    /\ \A l \in {"video", "audio"} :
         /\ tasks[l].state = "InProgress"
         /\ tasks[l].downloadedBytes > 0
         /\ tasks[l].remaining > 0
    /\ tasks["video"].downloadedBytes # tasks["audio"].downloadedBytes

\* ------------------------------------------------------------------- C15
\* The sanitization the documentation describes: forbidden characters are
\* replaced, leading and trailing spaces removed, the length limited.
NameCap == 3
Forbidden == {"\\", "/", ":", "*", "?", "\"", "<", ">", "|"}

ReplaceForbidden(s) == [i \in 1..Len(s) |-> IF s[i] \in Forbidden THEN "_" ELSE s[i]]

RECURSIVE StripLeft(_)
StripLeft(s) == IF s # <<>> /\ Head(s) = " " THEN StripLeft(Tail(s)) ELSE s

RECURSIVE StripRight(_)
StripRight(s) == IF s # <<>> /\ s[Len(s)] = " "
                 THEN StripRight(SubSeq(s, 1, Len(s) - 1)) ELSE s

Cap(s) == IF Len(s) > NameCap THEN SubSeq(s, 1, NameCap) ELSE s

Sanitize(s) == StripRight(Cap(StripLeft(StripRight(ReplaceForbidden(s)))))

\* C15: sanitizing is idempotent, and the output file name is the sanitized
\* base name followed by the extension, never the raw answer.
C15_PathFromSanitizedName ==
    pc = "running" =>
        /\ Sanitize(Sanitize(fileName)) = Sanitize(fileName)
        /\ outputFilePath = Sanitize(fileName) \o Extension

\* ------------------------------------------------------------------- C16
\* C16: the chunks received and not yet on disk stay within a constant (the
\* highWaterMark), and a chunk is taken from the remote stream only while
\* the write stream's buffer is below it, in the variants that attach their
\* own listener to the remote stream as in the one that only pipes.
C16_BoundedInFlight ==
    /\ [](Len(queue) <= HighWaterMark)
    /\ [][Len(queue') > Len(queue) => Buffered(queue) < HighWaterMark]_vars

\* the percentage variant, paused with a full buffer and more to come
C16_Witness ==
    /\ variant = "percent"
    /\ paused
    /\ Len(queue) = HighWaterMark
    /\ remaining > 0
    /\ downloadedBytes = Buffered(queue)

====
